---------------------------- MODULE Spec2Model ----------------------------
(***************************************************************************)
(* A model of backend/app.py: the chat-history web service.                *)
(*                                                                         *)
(*   - the SQLite store (tables chats and messages), one connection per    *)
(*     request, the engine's single write lock and implicit transactions;  *)
(*   - the five request handlers, cut at their storage statements and at   *)
(*     the external completion call, so that requests interleave;          *)
(*   - the completion call and format_response, computed on texts;         *)
(*   - execute_with_retry, as a loop over the outcomes of its statement.   *)
(*                                                                         *)
(* A text is a sequence of tokens.  The texts format_response works on are *)
(* sequences of one-character strings; fixed texts of the program (the     *)
(* greeting, the fallback prefix) are one token each.                      *)
(***************************************************************************)
EXTENDS Integers, Sequences, FiniteSets, TLC

(***************************************************************************)
(* Bounds of the model.                                                    *)
(***************************************************************************)
\* chats.id values the model lets the store hand out
MaxChatId == 2
\* messages.id values the model lets the store hand out
MaxMsgId == 3
\* calls of the underlying statement whose outcomes are enumerated for
\* execute_with_retry
MaxCalls == 4

(***************************************************************************)
(* Program constants.                                                      *)
(***************************************************************************)
\* execute_with_retry(db, query, params=(), retries=3)
retries == 3
\* time.sleep(0.1 * (attempt + 1)), in milliseconds
BackoffMs == 100

(***************************************************************************)
(* Characters.  BULLET stands for the one character U+2022.                *)
(***************************************************************************)
BULLET == "U+2022"
NL == "\n"
Digits == {"0", "1", "2", "3", "4", "5", "6", "7", "8", "9"}
\* what \s matches
Whitespace == {" ", "\n", "\t", "\r"}
LowerCase == <<"a", "b", "c", "d", "e", "f", "g", "h", "i", "j", "k", "l", "m",
               "n", "o", "p", "q", "r", "s", "t", "u", "v", "w", "x", "y", "z">>
UpperCase == <<"A", "B", "C", "D", "E", "F", "G", "H", "I", "J", "K", "L", "M",
               "N", "O", "P", "Q", "R", "S", "T", "U", "V", "W", "X", "Y", "Z">>

\* str.upper() of one character
Upper(c) ==
    IF \E i \in 1..Len(LowerCase) : LowerCase[i] = c
    THEN UpperCase[CHOOSE i \in 1..Len(LowerCase) : LowerCase[i] = c]
    ELSE c

\* s[n+1:]
Drop(s, n) == IF n >= Len(s) THEN <<>> ELSE SubSeq(s, n + 1, Len(s))

\* the length of the longest prefix of s whose characters are all in S
RECURSIVE RunLen(_, _)
RunLen(s, S) ==
    IF s # <<>> /\ Head(s) \in S THEN 1 + RunLen(Tail(s), S) ELSE 0

\* str.strip()
RECURSIVE RStrip(_)
RStrip(s) ==
    IF s # <<>> /\ s[Len(s)] \in Whitespace
    THEN RStrip(SubSeq(s, 1, Len(s) - 1))
    ELSE s

Strip(s) == RStrip(Drop(s, RunLen(s, Whitespace)))

\* re.sub(r'(\d+\.)\s+', r'<bullet> ', response_text)
RECURSIVE NumberedToBullets(_)
NumberedToBullets(s) ==
    IF s = <<>> THEN <<>>
    ELSE LET d == RunLen(s, Digits)
             afterDot == Drop(s, d + 1)
             w == RunLen(afterDot, Whitespace)
         IN  IF d > 0 /\ Len(s) > d /\ s[d + 1] = "." /\ w > 0
             THEN <<BULLET, " ">> \o NumberedToBullets(Drop(afterDot, w))
             ELSE <<Head(s)>> \o NumberedToBullets(Tail(s))

\* re.split(r'[\n<bullet>]+', response_text), cur being the piece read so far
RECURSIVE SplitPoints(_, _)
SplitPoints(s, cur) ==
    IF s = <<>> THEN <<cur>>
    ELSE IF Head(s) \in {NL, BULLET}
         THEN <<cur>> \o SplitPoints(Drop(s, RunLen(s, {NL, BULLET})), <<>>)
         ELSE SplitPoints(Tail(s), Append(cur, Head(s)))

\* the loop body of format_response on one point that is not empty
FormatPoint(point) ==
    LET capitalised == <<Upper(point[1])>> \o Tail(point)
    IN  IF capitalised[1] = BULLET THEN capitalised
        ELSE <<BULLET, " ">> \o capitalised

\* the loop of format_response and '\n\n'.join(formatted_points)
RECURSIVE JoinPoints(_, _)
JoinPoints(points, first) ==
    IF points = <<>> THEN <<>>
    ELSE LET point == Strip(Head(points))
         IN  IF point = <<>> THEN JoinPoints(Tail(points), first)
             ELSE (IF first THEN <<>> ELSE <<NL, NL>>)
                  \o FormatPoint(point) \o JoinPoints(Tail(points), FALSE)

\* re.sub(r':\s*', ':\n\n', formatted_text)
RECURSIVE BreakAfterColons(_)
BreakAfterColons(s) ==
    IF s = <<>> THEN <<>>
    ELSE IF Head(s) = ":"
         THEN <<":", NL, NL>>
              \o BreakAfterColons(Drop(Tail(s), RunLen(Tail(s), Whitespace)))
         ELSE <<Head(s)>> \o BreakAfterColons(Tail(s))

format_response(response_text) ==
    Strip(BreakAfterColons(
        JoinPoints(SplitPoints(NumberedToBullets(response_text), <<>>), TRUE)))


(***************************************************************************)
(* Fixed texts and the inputs the model draws from.                        *)
(***************************************************************************)
Greeting == <<"Hello! I'm your AI Healthcare Bot. How can I assist you today?">>
FallbackPrefix ==
    <<"Sorry, I'm having trouble responding right now. Please try again later. Error: ">>
DefaultTitle == "New Chat"

\* request slots: at most this many requests are in flight at once
Req == {"r1", "r2"}
None == "none"
\* data['title'] of POST /api/chats; "" is a missing or empty title
TitleInputs == {"", "Test"}
\* data['content'] of POST /api/chats/<id>/messages; <<>> is missing or empty
ContentInputs == {<<>>, <<"I have a headache">>}
\* the <int:chat_id> of the path
ChatIdInputs == 1..MaxChatId
\* what the completion endpoint may answer, and how the call may fail
RawResponses == {<<"1", ".", " ", "r", "e", "s", "t", ":", "t", "e", "a">>}
ApiOutcomes ==
    {[ok |-> TRUE, raw |-> raw, error |-> <<>>] : raw \in RawResponses}
    \cup {[ok |-> FALSE, raw |-> <<>>, error |-> <<"Connection error.">>]}

(***************************************************************************)
(* Exceptions.  str(e) is msg, a sequence of words.                        *)
(***************************************************************************)
NoErr == [cls |-> "", msg |-> <<>>]
LockedErr == [cls |-> "OperationalError", msg |-> <<"database", "is", "locked">>]
TableLockedErr ==
    [cls |-> "OperationalError", msg |-> <<"database", "table", "is", "locked">>]
IOErr == [cls |-> "OperationalError", msg |-> <<"disk", "I/O", "error">>]
ConstraintErr ==
    [cls |-> "IntegrityError", msg |-> <<"FOREIGN", "KEY", "constraint", "failed">>]

\* 'locked' in str(e)
HasLocked(msg) == \E i \in 1..Len(msg) : msg[i] = "locked"

(***************************************************************************)
(* generate_healthcare_response: the call either returns a raw text, which *)
(* is formatted, or fails, and the failure becomes the fallback text.      *)
(***************************************************************************)
generate_healthcare_response(user_message, outcome) ==
    IF outcome.ok
    THEN format_response(outcome.raw)
    ELSE FallbackPrefix \o outcome.error

(***************************************************************************)
(* The store.  chat_seq and msg_seq are the last ids handed out.           *)
(***************************************************************************)
VARIABLES
    db,      \* the committed contents of the database file
    wdb,     \* the contents as seen by the connection holding the write lock
    writer,  \* the request whose connection holds the write lock, or None
    pc,      \* where each request's handler stands
    req,     \* each request's inputs
    loc,     \* each handler's local variables
    resp,    \* each request's response, once it is answered
    err,     \* the exception each request's last statement raised
    execs,   \* how many times each request executed its last statement
    snap,    \* the committed contents when a bulk-clear call began
    rt       \* one call of execute_with_retry

vars == <<db, wdb, writer, pc, req, loc, resp, err, execs, snap, rt>>
webvars == <<db, wdb, writer, pc, req, loc, resp, err, execs, snap>>

EmptyDb == [chats |-> {}, messages |-> {}, chat_seq |-> 0, msg_seq |-> 0]

\* the connection get_db opens: it sets the journal mode and the busy
\* timeout and leaves foreign key enforcement at the engine's default, off
get_db == [journal_mode |-> "wal", busy_timeout |-> 60000, foreign_keys |-> FALSE]

\* cursor.lastrowid of the next INSERT INTO chats
NextChatId(d) == d.chat_seq + 1
NextMsgId(d) == d.msg_seq + 1

\* INSERT INTO chats (title) VALUES (?)
InsertChat(d, title) ==
    [d EXCEPT !.chats = @ \cup {[id |-> NextChatId(d), title |-> title]},
              !.chat_seq = NextChatId(d)]

\* INSERT INTO messages (chat_id, content, is_bot, timestamp) VALUES (?, ?, ?, ?)
InsertMessage(d, chat_id, content, is_bot) ==
    [d EXCEPT !.messages = @ \cup {[id |-> NextMsgId(d), chat_id |-> chat_id,
                                    content |-> content, is_bot |-> is_bot]},
              !.msg_seq = NextMsgId(d)]

\* DELETE FROM messages
DeleteMessages(d) == [d EXCEPT !.messages = {}]
\* a bulk-clear whose second DELETE removes nothing
DeleteChatsKept(d) == d

\* DELETE FROM chats
DeleteChats(d) == [d EXCEPT !.chats = {}]

\* SELECT * FROM messages WHERE chat_id = ? ORDER BY timestamp ASC: the rows
\* selected, as a set (the timestamp column, which only orders them, is left out)
SelectMessages(d, chat_id) == {m \in d.messages : m.chat_id = chat_id}

\* SELECT c.*, (SELECT COUNT(*) FROM messages WHERE chat_id = c.id) FROM chats c:
\* the entries, as a set, without last_message and the order it gives them
SelectChats(d) ==
    {[id |-> c.id, title |-> c.title,
      message_count |-> Cardinality(SelectMessages(d, c.id))] : c \in d.chats}

\* what the connection of request r reads
View(r) == IF writer = r THEN wdb ELSE db

\* the errors a statement of request r may raise: an input/output error at
\* any time, lock contention when it writes while another connection holds
\* the write lock past the busy timeout, a constraint failure when foreign
\* keys are enforced and the row's chat does not exist
StmtErrors(r, writes, fkMissing) ==
    {IOErr}
    \cup (IF writes /\ writer \notin {None, r} THEN {LockedErr} ELSE {})
    \cup (IF get_db.foreign_keys /\ fkMissing THEN {ConstraintErr} ELSE {})

\* a connection in autocommit mode: every statement is committed at once
DmlAutocommit(r, new) ==
    /\ writer \in {None, r}
    /\ writer' = writer
    /\ wdb' = new
    /\ db' = new

\* a data-changing statement of request r succeeds: the connection opens a
\* transaction implicitly, takes the write lock and changes its own view;
\* nothing is committed
Dml(r, new) ==
    /\ writer \in {None, r}
    /\ writer' = r
    /\ wdb' = new
    /\ db' = db

\* db.commit()
Commit(r) ==
    /\ db' = View(r)
    /\ wdb' = wdb
    /\ writer' = IF writer = r THEN None ELSE writer

\* db.rollback(), and db.close() with a transaction open
Rollback(r) ==
    /\ db' = db
    /\ wdb' = IF writer = r THEN db ELSE wdb
    /\ writer' = IF writer = r THEN None ELSE writer

(***************************************************************************)
(* Requests and responses.                                                 *)
(***************************************************************************)
NoReq == [op |-> None, chat_id |-> 0, title |-> "", content |-> <<>>]
NoLoc == [lastrowid |-> 0, ai_response |-> <<>>]
NoResp == [code |-> 0, body |-> "", status |-> "", error |-> <<>>, id |-> 0,
           title |-> "", rows |-> {}, chats |-> {}, user_message |-> <<>>,
           ai_response |-> <<>>, chat_id |-> 0, new_chat_id |-> 0]

Json(code) == [NoResp EXCEPT !.code = code, !.body = "json"]
\* jsonify({'error': ...}), code
ErrorResponse(code, text) == [Json(code) EXCEPT !.error = text]
\* the framework's answer to an exception no handler caught
ServerErrorPage == [NoResp EXCEPT !.code = 500, !.body = "html"]

\* how many chat ids and message ids a request still in flight may take
ChatNeed(op) == IF op \in {"create_chat", "clear_conversations"} THEN 1 ELSE 0
MsgNeed(op) == IF op = "create_chat" THEN 1 ELSE IF op = "send_message" THEN 2 ELSE 0
RECURSIVE SumOver(_, _)
SumOver(S, f) ==
    IF S = {} THEN 0
    ELSE LET x == CHOOSE y \in S : TRUE IN f[x] + SumOver(S \ {x}, f)
InFlight == {q \in Req : pc[q] \notin {"idle", "done"}}
\* the model's bound on the ids: a request begins only if the ids it and
\* the requests in flight may take are within MaxChatId and MaxMsgId
Room(op) ==
    /\ db.chat_seq + SumOver(InFlight, [q \in Req |-> ChatNeed(req[q].op)])
          + ChatNeed(op) <= MaxChatId
    /\ db.msg_seq + SumOver(InFlight, [q \in Req |-> MsgNeed(req[q].op)])
          + MsgNeed(op) <= MaxMsgId

\* request r is answered with response a
Answer(r, a) ==
    /\ pc' = [pc EXCEPT ![r] = "done"]
    /\ resp' = [resp EXCEPT ![r] = a]

\* a statement of request r raised e and no handler catches it: the
\* framework answers 500 and the teardown closes the connection
Unhandled(r, e) ==
    /\ Rollback(r)
    /\ Answer(r, ServerErrorPage)
    /\ err' = [err EXCEPT ![r] = e]
    /\ execs' = [execs EXCEPT ![r] = 1]
    /\ UNCHANGED <<req, loc, snap, rt>>

\* request r goes on to position p after a statement that succeeded
Goto(r, p) ==
    /\ pc' = [pc EXCEPT ![r] = p]
    /\ execs' = [execs EXCEPT ![r] = 1]
    /\ UNCHANGED <<req, resp, err, snap, rt>>


(***************************************************************************)
(* GET /api/chats/<chat_id>/messages and GET /api/chats: one SELECT each.  *)
(***************************************************************************)
get_messages(r) ==
    /\ pc[r] = "idle"
    /\ \E chat_id \in ChatIdInputs :
          /\ req' = [req EXCEPT ![r] = [NoReq EXCEPT !.op = "get_messages",
                                                     !.chat_id = chat_id]]
          /\ \/ /\ Answer(r, [Json(200) EXCEPT !.rows = SelectMessages(View(r), chat_id)])
                /\ execs' = [execs EXCEPT ![r] = 1]
                /\ UNCHANGED <<db, wdb, writer, loc, err, snap, rt>>
             \/ \E e \in StmtErrors(r, FALSE, FALSE) :
                   /\ Rollback(r)
                   /\ Answer(r, ServerErrorPage)
                   /\ err' = [err EXCEPT ![r] = e]
                   /\ execs' = [execs EXCEPT ![r] = 1]
                   /\ UNCHANGED <<loc, snap, rt>>

get_chats(r) ==
    /\ pc[r] = "idle"
    /\ req' = [req EXCEPT ![r] = [NoReq EXCEPT !.op = "get_chats"]]
    /\ \/ /\ Answer(r, [Json(200) EXCEPT !.chats = SelectChats(View(r))])
          /\ execs' = [execs EXCEPT ![r] = 1]
          /\ UNCHANGED <<db, wdb, writer, loc, err, snap, rt>>
       \/ \E e \in StmtErrors(r, FALSE, FALSE) :
             /\ Rollback(r)
             /\ Answer(r, ServerErrorPage)
             /\ err' = [err EXCEPT ![r] = e]
             /\ execs' = [execs EXCEPT ![r] = 1]
             /\ UNCHANGED <<loc, snap, rt>>

(***************************************************************************)
(* POST /api/chats                                                         *)
(***************************************************************************)
\* the request arrives and its body is validated
create_chat(r) ==
    /\ pc[r] = "idle"
    /\ \E title \in TitleInputs :
          /\ req' = [req EXCEPT ![r] = [NoReq EXCEPT !.op = "create_chat",
                                                     !.title = title]]
          /\ IF title = ""
             THEN Answer(r, ErrorResponse(400, <<"Chat title is required">>))
             ELSE /\ Room("create_chat")
                  /\ pc' = [pc EXCEPT ![r] = "cc_insert_chat"]
                  /\ resp' = resp
    /\ UNCHANGED <<db, wdb, writer, loc, err, execs, snap, rt>>

\* cursor = db.execute('INSERT INTO chats (title) VALUES (?)'); chat_id = cursor.lastrowid
CcInsertChat(r) ==
    /\ pc[r] = "cc_insert_chat"
    /\ \/ /\ Dml(r, InsertChat(View(r), req[r].title))
          /\ loc' = [loc EXCEPT ![r].lastrowid = NextChatId(View(r))]
          /\ Goto(r, "cc_insert_msg")
       \/ \E e \in StmtErrors(r, TRUE, FALSE) : Unhandled(r, e)

\* a create_chat that writes the greeting twice
CcInsertMsgTwice(r) ==
    /\ pc[r] = "cc_insert_msg"
    /\ Dml(r, InsertMessage(InsertMessage(View(r), loc[r].lastrowid, Greeting, TRUE),
                            loc[r].lastrowid, Greeting, TRUE))
    /\ loc' = loc
    /\ Goto(r, "cc_commit")

\* the initial bot message
CcInsertMsg(r) ==
    /\ pc[r] = "cc_insert_msg"
    /\ \/ /\ Dml(r, InsertMessage(View(r), loc[r].lastrowid, Greeting, TRUE))
          /\ loc' = loc
          /\ Goto(r, "cc_commit")
       \/ \E e \in StmtErrors(r, TRUE, FALSE) : Unhandled(r, e)

\* db.commit(); return jsonify({'id': chat_id, 'title': data['title']})
CcCommit(r) ==
    /\ pc[r] = "cc_commit"
    /\ \/ /\ Commit(r)
          /\ Answer(r, [Json(200) EXCEPT !.id = loc[r].lastrowid,
                                         !.title = req[r].title])
          /\ UNCHANGED <<req, loc, err, execs, snap, rt>>
       \/ Unhandled(r, IOErr)

(***************************************************************************)
(* POST /api/chats/<chat_id>/messages                                      *)
(***************************************************************************)
send_message(r) ==
    /\ pc[r] = "idle"
    /\ \E chat_id \in ChatIdInputs, content \in ContentInputs :
          /\ req' = [req EXCEPT ![r] = [NoReq EXCEPT !.op = "send_message",
                                                     !.chat_id = chat_id,
                                                     !.content = content]]
          /\ IF content = <<>>
             THEN Answer(r, ErrorResponse(400, <<"Message content is required">>))
             ELSE /\ Room("send_message")
                  /\ pc' = [pc EXCEPT ![r] = "sm_insert_user"]
                  /\ resp' = resp
    /\ UNCHANGED <<db, wdb, writer, loc, err, execs, snap, rt>>

\* the INSERT of request r's message row finds no chat with its chat_id
NoSuchChat(r) == \A c \in View(r).chats : c.id # req[r].chat_id

\* save user message
SmInsertUser(r) ==
    /\ pc[r] = "sm_insert_user"
    /\ \/ /\ Dml(r, InsertMessage(View(r), req[r].chat_id, req[r].content, FALSE))
          /\ loc' = loc
          /\ Goto(r, "sm_generate")
       \/ \E e \in StmtErrors(r, TRUE, NoSuchChat(r)) : Unhandled(r, e)

\* ai_response = generate_healthcare_response(data['content'])
SmGenerate(r) ==
    /\ pc[r] = "sm_generate"
    /\ \E outcome \in ApiOutcomes :
          loc' = [loc EXCEPT ![r].ai_response =
                      generate_healthcare_response(req[r].content, outcome)]
    /\ pc' = [pc EXCEPT ![r] = "sm_insert_bot"]
    /\ UNCHANGED <<db, wdb, writer, req, resp, err, execs, snap, rt>>

\* a send_message that saves the user's text again as the reply
SmInsertBotUserText(r) ==
    /\ pc[r] = "sm_insert_bot"
    /\ Dml(r, InsertMessage(View(r), req[r].chat_id, req[r].content, TRUE))
    /\ loc' = loc
    /\ Goto(r, "sm_commit")

\* save the AI response
SmInsertBot(r) ==
    /\ pc[r] = "sm_insert_bot"
    /\ \/ /\ Dml(r, InsertMessage(View(r), req[r].chat_id, loc[r].ai_response, TRUE))
          /\ loc' = loc
          /\ Goto(r, "sm_commit")
       \/ \E e \in StmtErrors(r, TRUE, NoSuchChat(r)) : Unhandled(r, e)

\* db.commit(); return jsonify({'status': 'success', ...})
SmCommit(r) ==
    /\ pc[r] = "sm_commit"
    /\ \/ /\ Commit(r)
          /\ Answer(r, [Json(200) EXCEPT !.status = "success",
                                         !.user_message = req[r].content,
                                         !.ai_response = loc[r].ai_response,
                                         !.chat_id = req[r].chat_id])
          /\ UNCHANGED <<req, loc, err, execs, snap, rt>>
       \/ Unhandled(r, IOErr)

(***************************************************************************)
(* DELETE /api/chats                                                       *)
(***************************************************************************)
clear_conversations(r) ==
    /\ pc[r] = "idle"
    /\ Room("clear_conversations")
    /\ req' = [req EXCEPT ![r] = [NoReq EXCEPT !.op = "clear_conversations"]]
    /\ pc' = [pc EXCEPT ![r] = "cl_delete_messages"]
    /\ snap' = [snap EXCEPT ![r] = db]
    /\ UNCHANGED <<db, wdb, writer, loc, resp, err, execs, rt>>

\* a bulk-clear without its try/except
ClearErrorUncaught(r, e) == Unhandled(r, e)

\* except Exception as e: db.rollback(); return jsonify({'error': str(e)}), 500
ClearFailed(r, e) ==
    /\ Rollback(r)
    /\ Answer(r, ErrorResponse(500, e.msg))
    /\ err' = [err EXCEPT ![r] = e]
    /\ execs' = [execs EXCEPT ![r] = 1]
    /\ UNCHANGED <<req, loc, snap, rt>>

\* db.execute('DELETE FROM messages')
ClDeleteMessages(r) ==
    /\ pc[r] = "cl_delete_messages"
    /\ \/ /\ Dml(r, DeleteMessages(View(r)))
          /\ loc' = loc
          /\ Goto(r, "cl_delete_chats")
       \/ \E e \in StmtErrors(r, TRUE, FALSE) : ClearFailed(r, e)

\* db.execute('DELETE FROM chats')
ClDeleteChats(r) ==
    /\ pc[r] = "cl_delete_chats"
    /\ \/ /\ Dml(r, DeleteChats(View(r)))
          /\ loc' = loc
          /\ Goto(r, "cl_commit1")
       \/ \E e \in StmtErrors(r, TRUE, FALSE) : ClearFailed(r, e)

\* the first db.commit()
ClCommit1(r) ==
    /\ pc[r] = "cl_commit1"
    /\ \/ /\ Commit(r)
          /\ loc' = loc
          /\ Goto(r, "cl_insert_chat")
       \/ ClearFailed(r, IOErr)

\* cursor = db.execute('INSERT INTO chats (title) VALUES (?)', ('New Chat',))
ClInsertChat(r) ==
    /\ pc[r] = "cl_insert_chat"
    /\ \/ /\ Dml(r, InsertChat(View(r), DefaultTitle))
          /\ loc' = [loc EXCEPT ![r].lastrowid = NextChatId(View(r))]
          /\ Goto(r, "cl_commit2")
       \/ \E e \in StmtErrors(r, TRUE, FALSE) : ClearFailed(r, e)

\* the second db.commit() and the success response
ClCommit2(r) ==
    /\ pc[r] = "cl_commit2"
    /\ \/ /\ Commit(r)
          /\ Answer(r, [Json(200) EXCEPT !.status = "success",
                                         !.new_chat_id = loc[r].lastrowid])
          /\ UNCHANGED <<req, loc, err, execs, snap, rt>>
       \/ ClearFailed(r, IOErr)

(***************************************************************************)
(* The response has been sent; the slot takes the next request.            *)
(***************************************************************************)
Finish(r) ==
    /\ pc[r] = "done"
    /\ pc' = [pc EXCEPT ![r] = "idle"]
    /\ req' = [req EXCEPT ![r] = NoReq]
    /\ loc' = [loc EXCEPT ![r] = NoLoc]
    /\ resp' = [resp EXCEPT ![r] = NoResp]
    /\ err' = [err EXCEPT ![r] = NoErr]
    /\ execs' = [execs EXCEPT ![r] = 0]
    /\ snap' = [snap EXCEPT ![r] = EmptyDb]
    /\ UNCHANGED <<db, wdb, writer, rt>>

(***************************************************************************)
(* execute_with_retry, on the outcomes its calls of db.execute will have.  *)
(***************************************************************************)
Ok == [cls |-> "ok", msg |-> <<>>]
Outcomes == {Ok, LockedErr, TableLockedErr, IOErr, ConstraintErr}
RECURSIVE SeqsOf(_, _)
SeqsOf(S, n) ==
    IF n = 0 THEN {<<>>}
    ELSE {Append(q, x) : q \in SeqsOf(S, n - 1), x \in S}

RetryIdle == [state |-> "idle", outcomes |-> <<>>, attempt |-> 0, calls |-> 0,
              sleeps |-> <<>>, cursor |-> 0, exc |-> NoErr]

\* a retry test that is off by one: attempt < retries
ShouldRetryOffByOne(e, attempt) ==
    /\ e.cls = "OperationalError"
    /\ HasLocked(e.msg)
    /\ attempt < retries

\* except sqlite3.OperationalError as e: if 'locked' in str(e) and attempt < retries - 1
ShouldRetry(e, attempt) ==
    /\ e.cls = "OperationalError"
    /\ HasLocked(e.msg)
    /\ attempt < retries - 1

\* one pass of the loop body: for attempt in range(retries)
execute_with_retry ==
    /\ rt.state = "loop"
    /\ rt.attempt < retries
    /\ rt.calls < Len(rt.outcomes)
    /\ LET o == rt.outcomes[rt.calls + 1]
           called == [rt EXCEPT !.calls = @ + 1]
       IN  rt' = IF o = Ok
                 THEN [called EXCEPT !.state = "returned", !.cursor = called.calls]
                 ELSE IF ShouldRetry(o, rt.attempt)
                 THEN [called EXCEPT !.sleeps = Append(@, BackoffMs * (rt.attempt + 1)),
                                     !.attempt = @ + 1]
                 ELSE [called EXCEPT !.state = "raised", !.exc = o]
    /\ UNCHANGED webvars

(***************************************************************************)
(* Specifications.                                                         *)
(***************************************************************************)
WebInit ==
    /\ db = EmptyDb
    /\ wdb = EmptyDb
    /\ writer = None
    /\ pc = [r \in Req |-> "idle"]
    /\ req = [r \in Req |-> NoReq]
    /\ loc = [r \in Req |-> NoLoc]
    /\ resp = [r \in Req |-> NoResp]
    /\ err = [r \in Req |-> NoErr]
    /\ execs = [r \in Req |-> 0]
    /\ snap = [r \in Req |-> EmptyDb]

Init == WebInit /\ rt = RetryIdle

Step(r) ==
    \/ get_messages(r)
    \/ get_chats(r)
    \/ create_chat(r)
    \/ CcInsertChat(r)
    \/ CcInsertMsg(r)
    \/ CcCommit(r)
    \/ send_message(r)
    \/ SmInsertUser(r)
    \/ SmGenerate(r)
    \/ SmInsertBot(r)
    \/ SmCommit(r)
    \/ clear_conversations(r)
    \/ ClDeleteMessages(r)
    \/ ClDeleteChats(r)
    \/ ClCommit1(r)
    \/ ClInsertChat(r)
    \/ ClCommit2(r)
    \/ Finish(r)

\* requests are handled concurrently, one thread each
Next == \E r \in Req : Step(r)
Spec == Init /\ [][Next]_vars

\* requests arrive one after the other: a request begins when no other is
\* in flight or unanswered
Alone(r) == \A q \in Req \ {r} : pc[q] = "idle"
SeqStep(r) ==
    \/ Alone(r) /\ get_messages(r)
    \/ Alone(r) /\ get_chats(r)
    \/ Alone(r) /\ create_chat(r)
    \/ Alone(r) /\ CcInsertChat(r)
    \/ Alone(r) /\ CcInsertMsg(r)
    \/ Alone(r) /\ CcCommit(r)
    \/ Alone(r) /\ send_message(r)
    \/ Alone(r) /\ SmInsertUser(r)
    \/ Alone(r) /\ SmGenerate(r)
    \/ Alone(r) /\ SmInsertBot(r)
    \/ Alone(r) /\ SmCommit(r)
    \/ Alone(r) /\ clear_conversations(r)
    \/ Alone(r) /\ ClDeleteMessages(r)
    \/ Alone(r) /\ ClDeleteChats(r)
    \/ Alone(r) /\ ClCommit1(r)
    \/ Alone(r) /\ ClInsertChat(r)
    \/ Alone(r) /\ ClCommit2(r)
    \/ Alone(r) /\ Finish(r)
SeqNext == \E r \in Req : SeqStep(r)
SeqSpec == Init /\ [][SeqNext]_vars

\* one call of execute_with_retry, for every sequence of outcomes
RetryInit ==
    /\ WebInit
    /\ \E outcomes \in SeqsOf(Outcomes, MaxCalls) :
          rt = [RetryIdle EXCEPT !.state = "loop", !.outcomes = outcomes]
RetryNext == execute_with_retry
RetrySpec == RetryInit /\ [][RetryNext]_vars


(***************************************************************************)
(* Properties.                                                             *)
(***************************************************************************)
ChatIds(d) == {c.id : c \in d.chats}
Sends(r) == req[r].op = "send_message"
Creates(r) == req[r].op = "create_chat"
Clears(r) == req[r].op = "clear_conversations"
\* the step in which request r is answered from position p
Returns(r, p) == pc[r] = p /\ pc'[r] = "done"

\* C1: a send-message call that is answered with status success has
\* appended exactly two message rows, both to the chat of the call: a user
\* row with the content sent and a bot row with the ai_response returned;
\* the completion call never ends the request, whatever its outcome, so a
\* failed completion call is answered the same way, the reply being the
\* fallback text.
C1SendAppendsTwoRows ==
    [][\A r \in Req :
          /\ Returns(r, "sm_commit") /\ resp'[r].status = "success" =>
                LET new == db'.messages \ db.messages
                IN  /\ resp'[r].code = 200
                    /\ db.messages \subseteq db'.messages
                    /\ Cardinality(new) = 2
                    /\ \A m \in new : m.chat_id = req[r].chat_id
                    /\ \E u \in new : ~u.is_bot /\ u.content = req[r].content
                    /\ \E b \in new : b.is_bot /\ b.content = resp'[r].ai_response
                    /\ resp'[r].user_message = req[r].content
          /\ pc[r] = "sm_generate" /\ pc'[r] # "sm_generate" =>
                /\ pc'[r] = "sm_insert_bot"
                /\ loc'[r].ai_response # <<>>
      ]_vars

\* a send-message call whose completion call failed is answered with status
\* success and its fallback reply is a committed bot row
C1Witness ==
    \E r \in Req :
        /\ pc[r] = "done" /\ Sends(r)
        /\ resp[r].code = 200 /\ resp[r].status = "success"
        /\ resp[r].ai_response = FallbackPrefix \o <<"Connection error.">>
        /\ \E b \in db.messages :
              b.is_bot /\ b.content = resp[r].ai_response /\ b.chat_id = req[r].chat_id

\* C2, as stated: when a valid create-chat call returns, exactly two message
\* rows exist for the new chat, and none existed before.
C2TwoRowsAfterCreate ==
    [][\A r \in Req :
          Returns(r, "cc_commit") /\ resp'[r].code = 200 =>
              /\ SelectMessages(db, resp'[r].id) = {}
              /\ Cardinality(SelectMessages(db', resp'[r].id)) = 2
      ]_vars

\* C2, amended: a valid create-chat call commits, together with the new
\* chat row, exactly one new message row: the bot-authored greeting of the
\* new chat, which does not exist before the call returns.
C2OneSeedRow ==
    [][\A r \in Req :
          Returns(r, "cc_commit") /\ resp'[r].code = 200 =>
              LET id == resp'[r].id
                  new == db'.messages \ db.messages
              IN  /\ id \notin ChatIds(db)
                  /\ db'.chats = db.chats \cup {[id |-> id, title |-> req[r].title]}
                  /\ db.messages \subseteq db'.messages
                  /\ Cardinality(new) = 1
                  /\ \A m \in new : m.chat_id = id /\ m.is_bot /\ m.content = Greeting
                  /\ Cardinality(SelectMessages(db', id))
                        = Cardinality(SelectMessages(db, id)) + 1
      ]_vars

\* a create-chat call has returned and its chat and greeting are committed
C2Witness ==
    \E r \in Req :
        /\ pc[r] = "done" /\ Creates(r) /\ resp[r].code = 200
        /\ resp[r].id \in ChatIds(db)
        /\ \E m \in SelectMessages(db, resp[r].id) : m.is_bot /\ m.content = Greeting

\* C3: when a valid create-chat call returns {id, title}, the messages of
\* chat id are exactly one row, bot-authored, holding the greeting.
C3OneRowListed ==
    [][\A r \in Req :
          Returns(r, "cc_commit") /\ resp'[r].code = 200 =>
              /\ Cardinality(SelectMessages(db', resp'[r].id)) = 1
              /\ \A m \in SelectMessages(db', resp'[r].id) :
                    m.is_bot /\ m.content = Greeting
      ]_vars

\* C4: when a bulk-clear call has returned success, the store holds exactly
\* one chat, titled "New Chat", and no message, and list-chats returns
\* exactly one entry, with message_count 0.  Checked for calls that arrive one
\* after the other, which is what repeating a call means.
C4ClearLeavesOneEmptyChat ==
    \A r \in Req :
        pc[r] = "done" /\ Clears(r) /\ resp[r].code = 200 =>
            /\ db.chats = {[id |-> resp[r].new_chat_id, title |-> "New Chat"]}
            /\ db.messages = {}
            /\ SelectChats(db) = {[id |-> resp[r].new_chat_id, title |-> "New Chat",
                                   message_count |-> 0]}

\* a bulk-clear call has succeeded on a store that an earlier bulk-clear
\* call had left: the call is a repeated one
C4Witness ==
    \E r \in Req :
        /\ pc[r] = "done" /\ Clears(r) /\ resp[r].code = 200
        /\ Cardinality(snap[r].chats) = 1
        /\ \A c \in snap[r].chats : c.title = "New Chat"
        /\ resp[r].new_chat_id \notin ChatIds(snap[r])

\* C5: every message row's chat_id is the id of a chat row that exists.
C5MessagesReferenceChats ==
    \A m \in db.messages : m.chat_id \in ChatIds(db)

\* C6: a handler's request ends with the lock-contention error only after
\* its statement has been executed 3 times.
C6LockedIsRetried ==
    \A r \in Req :
        pc[r] = "done" /\ err[r].cls = "OperationalError" /\ HasLocked(err[r].msg) =>
            execs[r] = 3

\* C7: when a statement or commit of bulk-clear raises, the handler answers
\* 500 with the JSON body {error: <the text of the exception>}, never the
\* framework's error page; the step discards the connection's uncommitted
\* changes and changes nothing that is committed.
C7ClearCatchesErrors ==
    /\ [](\A r \in Req :
            pc[r] = "done" /\ Clears(r) =>
                \/ resp[r].code = 200 /\ err[r] = NoErr
                \/ /\ err[r] # NoErr
                   /\ resp[r].code = 500 /\ resp[r].body = "json"
                   /\ resp[r].error = err[r].msg
                   /\ writer # r)
    /\ [][\A r \in Req :
            Clears(r) /\ pc[r] # "done" /\ pc'[r] = "done" /\ resp'[r].code # 200 =>
                /\ db' = db
                /\ writer' # r
                /\ writer = r => wdb' = db
         ]_vars

\* a bulk-clear call has failed on lock contention and is answered 500 with
\* the error text
C7Witness ==
    \E r \in Req :
        /\ pc[r] = "done" /\ Clears(r)
        /\ err[r] = LockedErr
        /\ resp[r].code = 500
        /\ resp[r].error = <<"database", "is", "locked">>

\* C8: execute_with_retry executes the statement at most 3 times; it returns
\* the result of the first execution that succeeds and executes nothing
\* after it; it sleeps 0.1 * k s after the k-th lock-contention failure, for
\* k = 1, 2 only; it raises the 3rd failure, and any failure that is not a
\* lock-contention error, unchanged and at once.
LockFailure(o) == o \in {LockedErr, TableLockedErr}
C8RetryPolicy ==
    LET o(i) == rt.outcomes[i]
    IN  rt.state # "idle" =>
            /\ rt.calls <= 3
            /\ \A i \in 1..(rt.calls - 1) : LockFailure(o(i))
            /\ Len(rt.sleeps) <= 2
            /\ \A k \in 1..Len(rt.sleeps) : rt.sleeps[k] = 100 * k
            /\ rt.state = "loop" =>
                  /\ rt.calls < 3
                  /\ Len(rt.sleeps) = rt.calls
                  /\ rt.calls > 0 => LockFailure(o(rt.calls))
            /\ rt.state = "returned" =>
                  /\ o(rt.calls) = Ok
                  /\ rt.cursor = rt.calls
                  /\ Len(rt.sleeps) = rt.calls - 1
            /\ rt.state = "raised" =>
                  /\ rt.exc = o(rt.calls)
                  /\ rt.exc # Ok
                  /\ rt.calls = 3 \/ ~LockFailure(rt.exc)
                  /\ Len(rt.sleeps) = rt.calls - 1

\* the third execution failed on lock contention, after sleeps of 0.1 s and
\* 0.2 s, and its error is raised
C8Witness ==
    /\ rt.state = "raised"
    /\ rt.calls = 3
    /\ rt.sleeps = <<100, 200>>
    /\ rt.exc = LockedErr

\* C9: when a bulk-clear call has ended, the committed chats and messages
\* are those of before the call, or one chat titled "New Chat" and no message.
C9ClearAllOrNothing ==
    \A r \in Req :
        pc[r] = "done" /\ Clears(r) =>
            \/ db.chats = snap[r].chats /\ db.messages = snap[r].messages
            \/ /\ Cardinality(db.chats) = 1
               /\ \A c \in db.chats : c.title = "New Chat"
               /\ db.messages = {}

\* C10: the two rows of a send-message call are committed together.  Every
\* committed user row has its bot reply, the next row of the same chat;
\* so has every user row a list-messages call returned, and a list-chats
\* call counts the committed rows only.  From its first INSERT to its commit
\* the call holds one open transaction, across the completion call, and a
\* call that ends without success leaves the committed store as it was.
Paired(rows) ==
    \A u \in rows :
        ~u.is_bot => \E b \in rows : b.is_bot /\ b.id = u.id + 1 /\ b.chat_id = u.chat_id
C10RowsVisibleTogether ==
    /\ [](/\ Paired(db.messages)
          /\ \A r \in Req :
                /\ pc[r] = "done" /\ req[r].op = "get_messages" => Paired(resp[r].rows)
                /\ pc[r] \in {"sm_generate", "sm_insert_bot", "sm_commit"} =>
                      /\ writer = r
                      /\ \E u \in wdb.messages \ db.messages :
                            ~u.is_bot /\ u.content = req[r].content)
    /\ [][\A r \in Req :
            /\ pc[r] = "idle" /\ req'[r].op = "get_chats" /\ resp'[r].code = 200 =>
                  \A c \in resp'[r].chats :
                      c.message_count
                          = Cardinality({m \in db.messages : m.chat_id = c.id})
            /\ Sends(r) /\ pc[r] # "done" /\ pc'[r] = "done" /\ resp'[r].code # 200 =>
                  db' = db
         ]_vars

\* while a send-message call waits with its user row uncommitted and its
\* reply generated, another request has listed the messages of the same chat
C10Witness ==
    \E r, q \in Req :
        /\ pc[r] = "sm_insert_bot"
        /\ pc[q] = "done" /\ req[q].op = "get_messages" /\ resp[q].code = 200
        /\ req[q].chat_id = req[r].chat_id
        /\ \E u \in wdb.messages : u.chat_id = req[r].chat_id /\ u \notin resp[q].rows

=============================================================================
